---- MODULE Spec2Model ----
(***************************************************************************)
(* COVID-19 data pipeline: extract -> transform -> validate -> load.       *)
(*                                                                         *)
(* A DataFrame is a record [columns, rows]: columns is the sequence of     *)
(* column labels, rows a sequence of functions from the column labels to   *)
(* cells.  Calendar dates are day numbers, day 0 being 2019-12-31.         *)
(* Columns keep one kind of cell each (text or number), as TLC compares    *)
(* only values of one kind: a missing text cell is NullStr, a missing      *)
(* number or date is NaN, and the integer 0 that fillna(0) writes into a   *)
(* text column is ZeroStr.                                                 *)
(***************************************************************************)
EXTENDS Integers, Sequences, FiniteSets, TLC

VARIABLES
    pc,         \* position of the running entry point
    entry,      \* which entry point runs: main.py, transform.py or data_quality.py
    raw,        \* data/raw: metric -> the CSV file (or no file)
    frames,     \* transform_all's locals: metric -> DataFrame of that metric
    began,      \* the transforms that have begun, in order
    final_df,   \* the merged dataset
    now,        \* wall clock, as a day number
    validator,  \* the DataQualityValidator object
    calls,      \* validate_all calls made on validator
    result,     \* what the last validate_all returned
    evals,      \* the validate_data calls made so far: [df, now, result]
    conn,       \* the loader's database connection
    meta,       \* status of this run's covid_metadata row
    loaderOps,  \* the loader operations invoked, in order
    loaded,     \* rows of this run committed to covid_daily_cases
    stats,      \* what get_latest_stats returned
    ret,        \* what the entry point returned
    error       \* the exception that ended the run, if any

vars == <<pc, entry, raw, frames, began, final_df, now, validator, calls,
          result, evals, conn, meta, loaderOps, loaded, stats, ret, error>>

----------------------------------------------------------------------------
(* Bounds of the model *)

MaxRawRows == 1     \* rows of a raw table
MaxGateRows == 1    \* rows of a dataset handed to the gate directly
MaxCalls == 2       \* validate_all calls on one validator
MaxEvals == 2       \* validate_data calls on one dataset

Clock == 22..23     \* the days the wall clock takes

----------------------------------------------------------------------------
(* Cells *)

NullStr == "<NaN>"
ZeroStr == "0"
NaN == 0 - 1000

StrCols == {"Province/State", "Country/Region", "Province_State", "Country_Region",
            "province_state", "country_region"}

isnull(col, v) == IF col \in StrCols THEN v = NullStr ELSE v = NaN

\* a - b on a numeric column: a missing operand gives a missing result
Minus(a, b) == IF a = NaN \/ b = NaN THEN NaN ELSE a - b
\* comparisons with a missing operand: <, > are False and != is True
Lt(a, b) == a # NaN /\ b # NaN /\ a < b
Gt(a, b) == a # NaN /\ b # NaN /\ a > b
Ne(a, b) == a = NaN \/ b = NaN \/ a # b

Range(s) == {s[i] : i \in 1..Len(s)}

RECURSIVE Flatten(_)
Flatten(ss) == IF ss = <<>> THEN <<>> ELSE Head(ss) \o Flatten(Tail(ss))

Map(s, F(_)) == [i \in 1..Len(s) |-> F(s[i])]

Count(s, P(_)) == Len(SelectSeq(s, P))

----------------------------------------------------------------------------
(* transform.py *)

Metrics == <<"confirmed", "deaths", "recovered">>

\* pd.to_datetime on a column label; 0 - 1 stands for a label that raises
to_datetime(label) ==
    CASE label = "12/31/19" -> 0
      [] label = "1/22/20" -> 22
      [] label = "1/23/20" -> 23
      [] label = "1/24/20" -> 24
      [] OTHER -> 0 - 1

Parses(label) == to_datetime(label) >= 0

\* df.melt(id_vars = first 4 columns, var_name 'date', value_name), one row
\* per (date column, input row), followed by pd.to_datetime on 'date'
melt(df, value_name) ==
    LET id_vars == SubSeq(df.columns, 1, 4)
        value_vars == SubSeq(df.columns, 5, Len(df.columns))
        cols == id_vars \o <<"date", value_name>>
        one(r, label) == [c \in Range(cols) |->
                            IF c = "date" THEN label
                            ELSE IF c = value_name THEN r[label]
                            ELSE r[c]]
    IN [columns |-> cols,
        rows |-> Flatten([j \in 1..Len(value_vars) |->
                            [i \in 1..Len(df.rows) |-> one(df.rows[i], value_vars[j])]])]

\* a variant of pivot_raises: to_datetime with errors='coerce' never raises
pivot_coerces(df) == FALSE

pivot_raises(df) ==
    \E i \in 1..Len(melt(df, "v").rows) : ~Parses(melt(df, "v").rows[i]["date"])

pivot_to_long_format(df, value_name) ==
    LET m == melt(df, value_name)
    IN [m EXCEPT !.rows = Map(m.rows, LAMBDA r : [r EXCEPT !["date"] = to_datetime(r["date"])])]

rename(c) ==
    CASE c = "Country/Region" -> "country_region"
      [] c = "Province/State" -> "province_state"
      [] c = "Lat" -> "latitude"
      [] c = "Long" -> "longitude"
      [] OTHER -> c

\* df['province_state'] raises KeyError when the column is not there
clean_raises(df) == "province_state" \notin {rename(c) : c \in Range(df.columns)}

clean_data(df) ==
    LET renamed == Map(df.columns, rename)
        kept == SelectSeq(renamed, LAMBDA c : c \notin {"latitude", "longitude"})
        old(c) == CHOOSE o \in Range(df.columns) : rename(o) = c
    IN [columns |-> kept,
        rows |-> Map(df.rows, LAMBDA r :
                    [c \in Range(kept) |->
                        IF c = "province_state" /\ r[old(c)] = NullStr THEN "All"
                        ELSE r[old(c)]])]

merge_keys == <<"country_region", "province_state", "date">>

KeyOf(r) == [k \in Range(merge_keys) |-> r[k]]

\* left.merge(right, on=merge_keys, how='outer'): null keys match each other,
\* every left row pairs with every right row of its key.  pandas orders the
\* result by key; the order here is left rows, then the unmatched right rows.
merge(left, right) ==
    LET rightOnly == SelectSeq(right.columns, LAMBDA c : c \notin Range(merge_keys))
        cols == left.columns \o rightOnly
        matches(l) == SelectSeq(right.rows, LAMBDA r : KeyOf(r) = KeyOf(l))
        join(l, r) == [c \in Range(cols) |-> IF c \in Range(left.columns) THEN l[c] ELSE r[c]]
        alone(l) == [c \in Range(cols) |-> IF c \in Range(left.columns) THEN l[c] ELSE NaN]
        orphan(r) == [c \in Range(cols) |-> IF c \in Range(right.columns) THEN r[c] ELSE NaN]
        fromLeft(l) == IF matches(l) = <<>> THEN <<alone(l)>>
                       ELSE Map(matches(l), LAMBDA r : join(l, r))
        unmatched == SelectSeq(right.rows,
                        LAMBDA r : \A i \in 1..Len(left.rows) : KeyOf(left.rows[i]) # KeyOf(r))
    IN [columns |-> cols,
        rows |-> Flatten(Map(left.rows, fromLeft)) \o Map(unmatched, orphan)]

\* df.fillna(0): every missing cell of every column becomes 0
fillna(df) ==
    [df EXCEPT !.rows = Map(df.rows, LAMBDA r :
        [c \in Range(df.columns) |->
            IF isnull(c, r[c]) THEN (IF c \in StrCols THEN ZeroStr ELSE 0) ELSE r[c]])]

\* a variant of with_active: negative active counts are clamped to 0
with_active_clamped(df) ==
    [columns |-> df.columns \o <<"active">>,
     rows |-> Map(df.rows, LAMBDA r :
        [c \in Range(df.columns) \cup {"active"} |->
            IF c = "active"
            THEN (IF Lt(Minus(Minus(r["confirmed"], r["deaths"]), r["recovered"]), 0) THEN 0
                  ELSE Minus(Minus(r["confirmed"], r["deaths"]), r["recovered"]))
            ELSE r[c]])]

with_active(df) ==
    [columns |-> df.columns \o <<"active">>,
     rows |-> Map(df.rows, LAMBDA r :
        [c \in Range(df.columns) \cup {"active"} |->
            IF c = "active"
            THEN Minus(Minus(r["confirmed"], r["deaths"]), r["recovered"])
            ELSE r[c]])]

\* a merge key missing from either side raises KeyError
merge_raises(confirmed_df, deaths_df, recovered_df) ==
    \E d \in {confirmed_df, deaths_df, recovered_df} :
        ~(Range(merge_keys) \subseteq Range(d.columns))

merge_datasets(confirmed_df, deaths_df, recovered_df) ==
    with_active(fillna(merge(merge(confirmed_df, deaths_df), recovered_df)))

----------------------------------------------------------------------------
(* data_quality.py *)

NoFrame == [columns |-> <<>>, rows |-> <<>>]

\* DataQualityValidator.__init__
Validator(df) == [df |-> df, errors |-> <<>>, warnings |-> <<>>]

NoValidator == Validator(NoFrame)

Entry(rule, n, col) == [rule |-> rule, count |-> n, col |-> col]

critical_columns == <<"country_region", "date", "confirmed", "deaths">>
numeric_columns == <<"confirmed", "deaths", "recovered">>

null_count(df, col) == Count(df.rows, LAMBDA r : isnull(col, r[col]))
negative_count(df, col) == Count(df.rows, LAMBDA r : Lt(r[col], 0))

\* 2020-01-01
min_date == 1

invalid_dates(df, max_date) ==
    SelectSeq(df.rows, LAMBDA r : Lt(r["date"], min_date) \/ Gt(r["date"], max_date))

inconsistent(df) ==
    Count(df.rows, LAMBDA r :
        Ne(r["active"], Minus(Minus(r["confirmed"], r["deaths"]), r["recovered"])))

\* Each check gives the validator after the check and the check's verdict.
check_null_values(v) ==
    LET found == SelectSeq(critical_columns, LAMBDA col : null_count(v.df, col) > 0)
        errs == v.errors \o Map(found, LAMBDA col : Entry("NULL", null_count(v.df, col), col))
    IN [v |-> [v EXCEPT !.errors = errs], passed |-> Len(errs) = 0]

\* a variant of check_negative_values: a warning fails the check
check_negative_values_failing(v) ==
    LET found == SelectSeq(numeric_columns, LAMBDA col : negative_count(v.df, col) > 0)
        warns == v.warnings
                    \o Map(found, LAMBDA col : Entry("negative", negative_count(v.df, col), col))
    IN [v |-> [v EXCEPT !.warnings = warns], passed |-> found = <<>>]

check_negative_values(v) ==
    LET found == SelectSeq(numeric_columns, LAMBDA col : negative_count(v.df, col) > 0)
        warns == v.warnings
                    \o Map(found, LAMBDA col : Entry("negative", negative_count(v.df, col), col))
    IN [v |-> [v EXCEPT !.warnings = warns], passed |-> TRUE]

check_date_range(v, clock) ==
    LET n == Len(invalid_dates(v.df, clock))
    IN [v |-> IF n > 0
              THEN [v EXCEPT !.errors = v.errors \o <<Entry("invalid dates", n, "date")>>]
              ELSE v,
        passed |-> n = 0]

check_logical_consistency(v) ==
    LET n == inconsistent(v.df)
    IN [v |-> IF n > 0
              THEN [v EXCEPT !.errors = v.errors \o <<Entry("inconsistent active", n, "active")>>]
              ELSE v,
        passed |-> n = 0]

checks == <<"NULL values check", "Negative values check", "Date range check",
            "Logical consistency check">>

check_func(name, v, clock) ==
    CASE name = "NULL values check" -> check_null_values(v)
      [] name = "Negative values check" -> check_negative_values(v)
      [] name = "Date range check" -> check_date_range(v, clock)
      [] name = "Logical consistency check" -> check_logical_consistency(v)

\* a variant of run_checks: the loop stops at the first check that fails
RECURSIVE run_checks_stopping(_, _, _, _)
run_checks_stopping(todo, v, all_passed, clock) ==
    IF todo = <<>> \/ ~all_passed THEN [v |-> v, all_passed |-> all_passed]
    ELSE LET r == check_func(Head(todo), v, clock)
         IN run_checks_stopping(Tail(todo), r.v, all_passed /\ r.passed, clock)

\* the loop of validate_all over the checks still to run
RECURSIVE run_checks(_, _, _, _)
run_checks(todo, v, all_passed, clock) ==
    IF todo = <<>> THEN [v |-> v, all_passed |-> all_passed]
    ELSE LET r == check_func(Head(todo), v, clock)
         IN run_checks(Tail(todo), r.v, all_passed /\ r.passed, clock)

\* validate_all: the validator afterwards and the returned triple
validate_all(v, clock) ==
    LET r == run_checks(checks, v, TRUE, clock)
    IN [v |-> r.v,
        returned |-> [all_passed |-> r.all_passed, errors |-> r.v.errors,
                      warnings |-> r.v.warnings]]

\* a variant of validate_data: the errors and warnings lists are shared by
\* all validators, so a call starts from what the call before it left
validate_data_shared(df, clock) ==
    validate_all([df |-> df,
                  errors |-> IF evals = <<>> THEN <<>>
                             ELSE evals[Len(evals)].result.errors,
                  warnings |-> IF evals = <<>> THEN <<>>
                               ELSE evals[Len(evals)].result.warnings], clock)

\* validate_data: a new validator, one validate_all
validate_data(df, clock) == validate_all(Validator(df), clock)

NoResult == [all_passed |-> FALSE, errors |-> <<>>, warnings |-> <<>>]

----------------------------------------------------------------------------
(* The inputs *)

SeqsUpTo(S, n) == UNION {[1..k -> S] : k \in 0..n}

NoFile == [present |-> FALSE, columns |-> <<>>, rows |-> <<>>]

Header(h) ==
    <<IF h = "no Province/State" THEN "Province_State" ELSE "Province/State",
      IF h = "no Country/Region" THEN "Country_Region" ELSE "Country/Region",
      "Lat", "Long">>

Headers == {"ok", "no Province/State", "no Country/Region"}

\* a CSV file as pd.read_csv gives it: ids[i] are the Province/State and
\* Country/Region cells of row i, cells[i] its counts under the date labels
RawTable(h, labels, ids, cells) ==
    [present |-> TRUE,
     columns |-> Header(h) \o labels,
     rows |-> [i \in 1..Len(ids) |->
                [c \in Range(Header(h) \o labels) |->
                    IF c = Header(h)[1] THEN ids[i][1]
                    ELSE IF c = Header(h)[2] THEN ids[i][2]
                    ELSE IF c \in {"Lat", "Long"} THEN 0
                    ELSE cells[i][CHOOSE j \in 1..Len(labels) : labels[j] = c]]]]

GoodLabels == <<"1/22/20", "1/23/20">>
BadLabels == <<"1/22/20", "Unnamed: 5">>

\* a reported count of each metric
Reported == [confirmed |-> 5, deaths |-> 7, recovered |-> 1]

RawIds == {<<NullStr, "A">>, <<NullStr, NullStr>>, <<"Hubei", "A">>}

\* files whose layout may be wrong, one row at most
FaultyFiles(m) ==
    {RawTable(h, labels, ids, [i \in 1..Len(ids) |-> <<Reported[m], Reported[m]>>]) :
        h \in Headers, labels \in {GoodLabels, BadLabels},
        ids \in {<<>>, <<<<NullStr, "A">>>>}}

\* well-formed files: the recovered series has one date column less
DataLabels(m) == IF m = "recovered" THEN <<"1/23/20">> ELSE GoodLabels

DataCells(m) ==
    IF m = "recovered" THEN {<<Reported[m]>>, <<NaN>>}
    ELSE {<<Reported[m], Reported[m]>>, <<NaN, Reported[m]>>}

DataFiles(m) ==
    {RawTable("ok", DataLabels(m), [i \in 1..Len(rs) |-> rs[i][1]],
              [i \in 1..Len(rs) |-> rs[i][2]]) :
        rs \in SeqsUpTo(RawIds \X DataCells(m), MaxRawRows)}

Idle ==
    /\ frames = [i \in 1..3 |-> NoFrame]
    /\ began = <<>>
    /\ validator = NoValidator
    /\ calls = 0
    /\ result = NoResult
    /\ evals = <<>>
    /\ conn = "none"
    /\ meta = "none"
    /\ loaderOps = <<>>
    /\ loaded = 0
    /\ stats = "unset"
    /\ ret = "none"
    /\ error = "none"

At(a, m) == [at |-> a, m |-> m]

\* main.py and transform.py on files of any layout
InitFaulty ==
    /\ entry \in {"main.py", "transform.py"}
    /\ \E c \in FaultyFiles("confirmed") \cup {NoFile},
          d \in FaultyFiles("deaths") \cup {NoFile},
          r \in FaultyFiles("recovered") \cup {NoFile} : raw = <<c, d, r>>
    /\ entry = "main.py" => \A i \in 1..3 : raw[i].present
    /\ pc = IF entry = "main.py" THEN At("extract", 0) ELSE At("load_raw", 1)
    /\ now \in Clock
    /\ final_df = NoFrame
    /\ Idle

\* data_quality.py on well-formed files of any content
InitData ==
    /\ entry = "data_quality.py"
    /\ \E c \in DataFiles("confirmed"), d \in DataFiles("deaths"),
          r \in DataFiles("recovered") : raw = <<c, d, r>>
    /\ pc = At("load_raw", 1)
    /\ now = 23
    /\ final_df = NoFrame
    /\ Idle

Init == InitFaulty \/ InitData

----------------------------------------------------------------------------
(* main.py: run_pipeline, and the __main__ blocks of transform.py and       *)
(* data_quality.py, one action per call                                    *)

\* an exception leaves the entry point: run_pipeline catches it and returns
\* False, the other entry points let it through
Raise(e) ==
    /\ pc' = At("done", 0)
    /\ error' = e
    /\ ret' = IF entry = "main.py" THEN "False" ELSE "raised"

\* extract_all: the three files are downloaded into data/raw, or a download raises
Extract ==
    /\ pc = At("extract", 0)
    /\ \/ /\ pc' = At("load_raw", 1)
          /\ UNCHANGED <<ret, error>>
       \/ Raise("RequestException")
    /\ UNCHANGED <<entry, raw, frames, began, final_df, now, validator, calls, result,
                   evals, conn, meta, loaderOps, loaded, stats>>

NextOf(a, m, b) == IF m < 3 THEN At(a, m + 1) ELSE At(b, IF b = "merge" THEN 0 ELSE 1)

load_raw_data(m) ==
    /\ pc = At("load_raw", m)
    /\ IF raw[m].present
       THEN /\ frames' = [frames EXCEPT ![m] = [columns |-> raw[m].columns,
                                                rows |-> raw[m].rows]]
            /\ pc' = NextOf("load_raw", m, "pivot")
            /\ UNCHANGED <<ret, error>>
       ELSE /\ Raise("FileNotFoundError")
            /\ UNCHANGED frames
    /\ UNCHANGED <<entry, raw, began, final_df, now, validator, calls, result,
                   evals, conn, meta, loaderOps, loaded, stats>>

Pivot(m) ==
    /\ pc = At("pivot", m)
    /\ began' = Append(began, <<"pivot_to_long_format", m>>)
    /\ IF pivot_raises(frames[m])
       THEN /\ Raise("DateParseError")
            /\ UNCHANGED frames
       ELSE /\ frames' = [frames EXCEPT ![m] = pivot_to_long_format(frames[m], Metrics[m])]
            /\ pc' = NextOf("pivot", m, "clean")
            /\ UNCHANGED <<ret, error>>
    /\ UNCHANGED <<entry, raw, final_df, now, validator, calls, result,
                   evals, conn, meta, loaderOps, loaded, stats>>

Clean(m) ==
    /\ pc = At("clean", m)
    /\ began' = Append(began, <<"clean_data", m>>)
    /\ IF clean_raises(frames[m])
       THEN /\ Raise("KeyError")
            /\ UNCHANGED frames
       ELSE /\ frames' = [frames EXCEPT ![m] = clean_data(frames[m])]
            /\ pc' = NextOf("clean", m, "merge")
            /\ UNCHANGED <<ret, error>>
    /\ UNCHANGED <<entry, raw, final_df, now, validator, calls, result,
                   evals, conn, meta, loaderOps, loaded, stats>>

\* merge_datasets and the return of transform_all
Merge ==
    /\ pc = At("merge", 0)
    /\ began' = Append(began, <<"merge_datasets", 0>>)
    /\ IF merge_raises(frames[1], frames[2], frames[3])
       THEN /\ Raise("KeyError")
            /\ UNCHANGED final_df
       ELSE /\ final_df' = merge_datasets(frames[1], frames[2], frames[3])
            /\ IF entry = "transform.py"
               THEN /\ pc' = At("done", 0)
                    /\ ret' = "df"
               ELSE /\ pc' = At("validate", 0)
                    /\ UNCHANGED ret
            /\ UNCHANGED error
    /\ UNCHANGED <<entry, raw, frames, now, validator, calls, result,
                   evals, conn, meta, loaderOps, loaded, stats>>

\* a variant of Validate: the verdict of the gate is not looked at
Validate_ungated ==
    /\ pc = At("validate", 0)
    /\ LET r == validate_data(final_df, now)
       IN /\ result' = r.returned
          /\ evals' = Append(evals, [df |-> final_df, now |-> now, result |-> r.returned])
          /\ IF entry = "data_quality.py"
             THEN /\ pc' = At("done", 0)
                  /\ ret' = "tuple"
             ELSE /\ pc' = At("connect", 0)
                  /\ UNCHANGED ret
    /\ UNCHANGED <<entry, raw, frames, began, final_df, now, validator, calls,
                   conn, meta, loaderOps, loaded, stats, error>>

\* passed, errors, warnings = validate_data(df); if not passed: return False
Validate ==
    /\ pc = At("validate", 0)
    /\ LET r == validate_data(final_df, now)
       IN /\ result' = r.returned
          /\ evals' = Append(evals, [df |-> final_df, now |-> now, result |-> r.returned])
          /\ IF entry = "data_quality.py"
             THEN /\ pc' = At("done", 0)
                  /\ ret' = "tuple"
             ELSE IF ~r.returned.all_passed
             THEN /\ pc' = At("done", 0)
                  /\ ret' = "False"
             ELSE /\ pc' = At("connect", 0)
                  /\ UNCHANGED ret
    /\ UNCHANGED <<entry, raw, frames, began, final_df, now, validator, calls,
                   conn, meta, loaderOps, loaded, stats, error>>

----------------------------------------------------------------------------
(* load.py, as run_pipeline calls it.  A database operation either succeeds *)
(* or raises; a raise inside load.py rolls the open transaction back.      *)

\* int(row[...]) of load_data raises on a missing number
int_raises(df) ==
    \E i \in 1..Len(df.rows) :
        \E c \in {"confirmed", "deaths", "recovered", "active"} : df.rows[i][c] = NaN

connect ==
    /\ pc = At("connect", 0)
    /\ loaderOps' = Append(loaderOps, "connect")
    /\ \/ /\ conn' = "open"
          /\ pc' = At("create_run_metadata", 0)
          /\ UNCHANGED <<ret, error>>
       \/ /\ Raise("OperationalError")
          /\ UNCHANGED conn
    /\ UNCHANGED <<entry, raw, frames, began, final_df, now, validator, calls, result,
                   evals, meta, loaded, stats>>

create_run_metadata ==
    /\ pc = At("create_run_metadata", 0)
    /\ loaderOps' = Append(loaderOps, "create_run_metadata")
    /\ \/ /\ meta' = "IN_PROGRESS"
          /\ pc' = At("load_data", 0)
          /\ UNCHANGED <<ret, error>>
       \/ /\ Raise("DatabaseError")
          /\ UNCHANGED meta
    /\ UNCHANGED <<entry, raw, frames, began, final_df, now, validator, calls, result,
                   evals, conn, loaded, stats>>

load_data ==
    /\ pc = At("load_data", 0)
    /\ loaderOps' = Append(loaderOps, "load_data")
    /\ \/ /\ ~int_raises(final_df)
          /\ loaded' = Len(final_df.rows)
          /\ pc' = At("update_metadata", 0)
          /\ UNCHANGED <<ret, error>>
       \/ /\ Raise(IF int_raises(final_df) THEN "ValueError" ELSE "DatabaseError")
          /\ UNCHANGED loaded
    /\ UNCHANGED <<entry, raw, frames, began, final_df, now, validator, calls, result,
                   evals, conn, meta, stats>>

\* loader.update_metadata(run_id, records_loaded, 'SUCCESS')
update_metadata ==
    /\ pc = At("update_metadata", 0)
    /\ loaderOps' = Append(loaderOps, "update_metadata")
    /\ \/ /\ meta' = "SUCCESS"
          /\ pc' = At("get_latest_stats", 0)
          /\ UNCHANGED <<ret, error>>
       \/ /\ Raise("DatabaseError")
          /\ UNCHANGED meta
    /\ UNCHANGED <<entry, raw, frames, began, final_df, now, validator, calls, result,
                   evals, conn, loaded, stats>>

\* a failing query is caught inside get_latest_stats, which then returns None
get_latest_stats ==
    /\ pc = At("get_latest_stats", 0)
    /\ loaderOps' = Append(loaderOps, "get_latest_stats")
    /\ \/ stats' = "dict"
       \/ stats' = "None"
    /\ pc' = At("close", 0)
    /\ UNCHANGED <<entry, raw, frames, began, final_df, now, validator, calls, result,
                   evals, conn, meta, loaded, ret, error>>

\* loader.close(), then return True
close ==
    /\ pc = At("close", 0)
    /\ loaderOps' = Append(loaderOps, "close")
    /\ conn' = "closed"
    /\ pc' = At("done", 0)
    /\ ret' = "True"
    /\ UNCHANGED <<entry, raw, frames, began, final_df, now, validator, calls, result,
                   evals, meta, loaded, stats, error>>

Next ==
    \/ Extract
    \/ \E m \in 1..3 : load_raw_data(m)
    \/ \E m \in 1..3 : Pivot(m)
    \/ \E m \in 1..3 : Clean(m)
    \/ Merge
    \/ Validate
    \/ connect
    \/ create_run_metadata
    \/ load_data
    \/ update_metadata
    \/ get_latest_stats
    \/ close

Spec == Init /\ [][Next]_vars

----------------------------------------------------------------------------
(* The gate on any dataset of the unified schema: a validator that is      *)
(* constructed and asked to validate_all repeatedly, and validate_data     *)
(* called repeatedly, while the clock advances.                            *)

unified_columns == <<"province_state", "country_region", "date", "confirmed", "deaths",
                     "recovered", "active">>

\* confirmed, deaths, recovered of one row
Counts == {<<2, 0, 0>>, <<NaN, 0, 0>>, <<2, NaN, 0>>, <<NaN, NaN, 0 - 1>>,
           <<0 - 1, 0 - 1, 0 - 1>>, <<2, 0 - 1, 0 - 1>>}

GateRow(region, date, c, consistent) ==
    [col \in Range(unified_columns) |->
        CASE col = "province_state" -> "All"
          [] col = "country_region" -> region
          [] col = "date" -> date
          [] col = "confirmed" -> c[1]
          [] col = "deaths" -> c[2]
          [] col = "recovered" -> c[3]
          [] col = "active" -> IF consistent THEN Minus(Minus(c[1], c[2]), c[3]) ELSE 50]

\* a row with a missing count is inconsistent whatever its active field holds
GateRows ==
    UNION {{GateRow(region, date, c, consistent) :
                region \in {"A", NullStr}, date \in {NaN, 0, 22, 23},
                consistent \in {b \in BOOLEAN : b \/ NaN \notin Range(c)}} :
           c \in Counts}

InitGate ==
    /\ entry = "gate"
    /\ pc = At("gate", 0)
    /\ raw = <<NoFile, NoFile, NoFile>>
    /\ now = 22
    /\ \E rows \in SeqsUpTo(GateRows, MaxGateRows) :
            final_df = [columns |-> unified_columns, rows |-> rows]
    /\ Idle

\* validator = DataQualityValidator(df)
Construct ==
    /\ pc = At("gate", 0)
    /\ validator = NoValidator
    /\ validator' = Validator(final_df)
    /\ UNCHANGED <<pc, entry, raw, frames, began, final_df, now, calls, result, evals,
                   conn, meta, loaderOps, loaded, stats, ret, error>>

\* validator.validate_all()
ValidateAllCall ==
    /\ pc = At("gate", 0)
    /\ validator # NoValidator
    /\ calls < MaxCalls
    /\ LET r == validate_all(validator, now)
       IN /\ validator' = r.v
          /\ result' = r.returned
    /\ calls' = calls + 1
    /\ UNCHANGED <<pc, entry, raw, frames, began, final_df, now, evals,
                   conn, meta, loaderOps, loaded, stats, ret, error>>

\* validate_data(df)
ValidateDataCall ==
    /\ pc = At("gate", 0)
    /\ Len(evals) < MaxEvals
    /\ LET r == validate_data(final_df, now)
       IN evals' = Append(evals, [df |-> final_df, now |-> now, result |-> r.returned])
    /\ UNCHANGED <<pc, entry, raw, frames, began, final_df, now, validator, calls, result,
                   conn, meta, loaderOps, loaded, stats, ret, error>>

Tick ==
    /\ pc = At("gate", 0)
    /\ now + 1 \in Clock
    /\ now' = now + 1
    /\ UNCHANGED <<pc, entry, raw, frames, began, final_df, validator, calls, result, evals,
                   conn, meta, loaderOps, loaded, stats, ret, error>>

NextGate == Construct \/ ValidateAllCall \/ ValidateDataCall \/ Tick

SpecGate == InitGate /\ [][NextGate]_vars

----------------------------------------------------------------------------
(* Properties of run_pipeline (Spec) *)

Invoked(op) == \E i \in 1..Len(loaderOps) : loaderOps[i] = op

Validated == evals # <<>>

\* C1: a loader operation (connect, create_run_metadata, load_data, ...) is
\* invoked only after validate_data returned admit = true for the dataset of
\* the run, and a run whose dataset is rejected returns False with no loader
\* operation invoked.
C1_LoadOnlyAfterAdmit ==
    /\ loaderOps # <<>> =>
            /\ Validated
            /\ evals[Len(evals)].df = final_df
            /\ evals[Len(evals)].result.all_passed
            /\ result.all_passed
    /\ (entry = "main.py" /\ Validated /\ ~result.all_passed) =>
            /\ pc = At("done", 0)
            /\ ret = "False"
            /\ loaderOps = <<>>
            /\ conn = "none" /\ meta = "none" /\ loaded = 0

C1_Witness == Invoked("load_data") /\ loaded > 0 /\ result.all_passed

\* the other case of C1: a rejected dataset ends the run
C1_Rejected == entry = "main.py" /\ Validated /\ ~result.all_passed /\ ret = "False"

----------------------------------------------------------------------------
(* Properties of transform_all (Spec) *)

Missing(m) == ~raw[m].present

BadLabel(m) ==
    /\ raw[m].present
    /\ \E i \in 5..Len(raw[m].columns) : ~Parses(raw[m].columns[i])

BadHeader(m) ==
    /\ raw[m].present
    /\ ~({"Province/State", "Country/Region"} \subseteq Range(raw[m].columns))

Fatal == {"FileNotFoundError", "DateParseError", "KeyError"}

Began(op) == \E i \in 1..Len(began) : began[i][1] = op

----------------------------------------------------------------------------
(* Properties of merge_datasets (Spec).  Once merge_datasets has returned,  *)
(* frames holds its three arguments and final_df its result.               *)

Merged == final_df # NoFrame

Keys(df) == {KeyOf(df.rows[i]) : i \in 1..Len(df.rows)}

UniqueKeys(df) ==
    \A i, j \in 1..Len(df.rows) : KeyOf(df.rows[i]) = KeyOf(df.rows[j]) => i = j

\* the values a metric's long table holds for a key
Sourced(m, key) ==
    {frames[m].rows[i][Metrics[m]] : i \in {j \in 1..Len(frames[m].rows) :
                                              KeyOf(frames[m].rows[j]) = key}}

\* C6 as claimed: when (region, sub-region, date) is unique within each of
\* the three long tables, the merged output holds each key at most once and
\* its keys are exactly the union of the keys of the three inputs.
C6_Original ==
    (Merged /\ \A m \in 1..3 : UniqueKeys(frames[m])) =>
        /\ UniqueKeys(final_df)
        /\ Keys(final_df) = Keys(frames[1]) \cup Keys(frames[2]) \cup Keys(frames[3])

\* C7 as claimed: in every merged row, a metric whose source table lacks the
\* row's key, or holds a null for it, is 0, and a metric whose source table
\* holds a value for the key has that value.
C7_Original ==
    Merged =>
        \A i \in 1..Len(final_df.rows) : \A m \in 1..3 :
            LET row == final_df.rows[i]
                src == Sourced(m, KeyOf(row))
            IN /\ src \subseteq {NaN} => row[Metrics[m]] = 0
               /\ src \ {NaN} # {} => row[Metrics[m]] \in src

\* C8: every merged row has active = confirmed - deaths - recovered over the
\* zero-filled counts, negative results kept, and the gate's consistency
\* check finds no inconsistent record in a dataset made by transform_all.
C8_ActiveDerivation ==
    Merged =>
        /\ \A i \in 1..Len(final_df.rows) :
            LET row == final_df.rows[i]
            IN /\ \A c \in {"confirmed", "deaths", "recovered", "active"} : row[c] # NaN
               /\ row["active"] = row["confirmed"] - row["deaths"] - row["recovered"]
        /\ inconsistent(final_df) = 0
        /\ Validated =>
            \A k \in 1..Len(result.errors) : result.errors[k].rule # "inconsistent active"

\* a merged and validated dataset with a negative active count
C8_Witness ==
    /\ Merged
    /\ Validated
    /\ \E i \in 1..Len(final_df.rows) : final_df.rows[i]["active"] < 0
    /\ \E i \in 1..Len(final_df.rows) : final_df.rows[i]["active"] > 0

NullRegionIn == \E m \in 1..3 : \E i \in 1..Len(frames[m].rows) :
                    frames[m].rows[i]["country_region"] = NullStr

\* C9 as claimed: the zero-fill leaves the key fields alone: a row whose
\* region is null in the inputs has a null region in the merged output, and
\* the gate's required-field rule reports it.
C9_Original ==
    /\ (Merged /\ NullRegionIn) =>
            \E i \in 1..Len(final_df.rows) : final_df.rows[i]["country_region"] = NullStr
    /\ (Merged /\ NullRegionIn /\ Validated) =>
            \E k \in 1..Len(result.errors) :
                result.errors[k].rule = "NULL" /\ result.errors[k].col = "country_region"

----------------------------------------------------------------------------
(* Properties of the load stage (Spec) *)

\* C10 as claimed: when a run that created its run-metadata record ends, the
\* record has a terminal status and the connection of the run is closed.
C10_Original ==
    (pc = At("done", 0) /\ Invoked("create_run_metadata") /\ meta # "none") =>
        (meta # "IN_PROGRESS" /\ conn = "closed")

----------------------------------------------------------------------------
(* Properties of the gate (SpecGate) *)

Blocking == {"NULL", "invalid dates", "inconsistent active"}

\* what each rule finds in a dataset at a given time
NullFindings(df) ==
    Map(SelectSeq(critical_columns, LAMBDA col : null_count(df, col) > 0),
        LAMBDA col : Entry("NULL", null_count(df, col), col))

DateFindings(df, clock) ==
    IF invalid_dates(df, clock) = <<>> THEN <<>>
    ELSE <<Entry("invalid dates", Len(invalid_dates(df, clock)), "date")>>

ConsistencyFindings(df) ==
    IF inconsistent(df) = 0 THEN <<>>
    ELSE <<Entry("inconsistent active", inconsistent(df), "active")>>

NegativeFindings(df) ==
    Map(SelectSeq(numeric_columns, LAMBDA col : negative_count(df, col) > 0),
        LAMBDA col : Entry("negative", negative_count(df, col), col))

ErrorFindings(df, clock) ==
    NullFindings(df) \o DateFindings(df, clock) \o ConsistencyFindings(df)

\* C2: after any number of validate_all calls on a validator, and for every
\* validate_data call, the returned admit flag is true exactly when the
\* returned errors list is empty; the errors list holds findings of the
\* blocking rules only, and a new validator admits exactly when no blocking
\* rule finds anything in the dataset; warnings never change admit.
C2_AdmitIffNoErrors ==
    /\ calls > 0 =>
        /\ result.all_passed <=> result.errors = <<>>
        /\ \A k \in 1..Len(result.errors) : result.errors[k].rule \in Blocking
        /\ \A k \in 1..Len(result.warnings) : result.warnings[k].rule = "negative"
        /\ result.errors = validator.errors /\ result.warnings = validator.warnings
    /\ \A i \in 1..Len(evals) :
        /\ evals[i].result.all_passed <=> evals[i].result.errors = <<>>
        /\ evals[i].result.all_passed <=> ErrorFindings(evals[i].df, evals[i].now) = <<>>

\* a second validate_all on one validator admits a dataset that has warnings
C2_Witness ==
    /\ calls = 2
    /\ result.all_passed
    /\ result.warnings # <<>>
    /\ final_df.rows # <<>>

====
